---- MODULE Spec2Model ----
(***************************************************************************)
(* Model of madmom/features/downbeats.py: the beat synchroniser            *)
(* (BeatSyncProcessor, streaming and batch), the bar state space and       *)
(* transition model built by DBNBarTrackingProcessor, the GMM              *)
(* observation model (GMMDownBeatTrackingObservationModel), streaming and  *)
(* batch decoding (process_online, process_offline), and the input loop    *)
(* of bin/GMM_control.py.                                                  *)
(*                                                                         *)
(* Time is counted in ticks: one second is fps * TicksPerFrame ticks, so   *)
(* a time t (ticks) is t / TicksPerFrame frames.  Floating point values    *)
(* (means, running sums, probabilities) are exact rationals <<num, den>>   *)
(* in lowest terms with den > 0.                                           *)
(***************************************************************************)
EXTENDS Integers, Sequences, FiniteSets, TLC

VARIABLES
    \* ---- environment of the streaming synchroniser
    frame,              \* number of process_online calls made so far
    beats_seen,         \* number of calls so far that carried a beat
    \* ---- BeatSyncProcessor instance (self.*), streaming mode
    beat_subdivisions,  \* self.beat_subdivisions (N)
    feat_sum,           \* self.feat_sum (rational)
    counter,            \* self.counter
    current_div,        \* self.current_div (0-based)
    div_frames,         \* self.div_frames (NoDivFrames = None)
    last_beat,          \* self.last_beat (NoLastBeat = None), ticks
    beat_features,      \* self.beat_features, N rationals
    beat_interval,      \* local beat_interval of the last tempo update
    ret_beat,           \* first component of the last return value
    ret_beat_feat,      \* second component: <<>> or <<vector>>
    is_beat,            \* local is_beat of the last call
    div_writes,         \* history: means stored per subdivision since the
                        \* last reset of self.beat_features
    \* ---- BeatSyncProcessor.process_offline: arguments, locals, outcome
    features,           \* features, one tuple of feat_dim values per frame
    features_ndim,      \* features.ndim of the argument (1 or 2)
    beats_in,           \* beats as passed by the caller (ticks)
    beats,              \* local beats (trimmed by the while loop)
    pc,                 \* position inside process_offline
    warnings,           \* messages passed to warnings.warn, in order
    i_beat,             \* loop variable of the aggregation loop
    first_next_beat_frame,
    batch_features,     \* local beat_features, rows filled so far
    batch_frames,       \* per filled row: <<beat_start_frame, end frame>>
    error,              \* exception that ended the call, "" if none
    result,             \* return value <<beats, beat_features>>
    \* ---- DBNBarTrackingProcessor and its observation model
    beats_per_bar,      \* self.beats_per_bar
    pattern_change_prob,\* pattern_change_prob (rational)
    redistribution,     \* rule that spreads pattern_change_prob
    gmms,               \* observation_param: gmms[p][k][bd]
    dbn_pc,             \* "new", "built" (after __init__), "scored"
    st,                 \* self.st: num_states, state_positions, state_patterns
    tm,                 \* self.tm: tm[s][s2], probability of s -> s2
    pointers,           \* self.om.pointers
    observations,       \* argument of log_densities
    obs_ndim,           \* observations.ndim
    log_dens,           \* return value of log_densities
    om_error,           \* exception raised by log_densities, "" if none
    num_scored,         \* calls of score made by log_densities
    \* ---- DBNBarTrackingProcessor: options, streaming session, batch call
    bump_beat_number,   \* self.bump_beat_number
    return_pattern,     \* self.return_pattern
    on_counter,         \* self.counter
    fwd,                \* forward vector kept by self.hmm
    on_record,          \* return value of the last process_online call
    on_had_feature,     \* the last call's activation held a feature vector
    on_inputs,          \* the feature vectors passed to process_online
    on_states,          \* the states process_online decided on, in order
    off_path,           \* path of process_offline
    off_numbers,        \* beat_numbers of process_offline
    off_error,          \* exception that ended process_offline, "" if none
    \* ---- input loop of GMM_control.py and LoadBeatsProcessor
    loop_pc,            \* "reading", "ended" (break) or "crashed"
    loop_data,          \* data: the line read last
    loop_error,         \* exception that left the loop, "" if none
    loop_calls,         \* arguments (beat, feature) of the processor calls
    loaded              \* return values of LoadBeatsProcessor.process_online

sync_vars == <<frame, beats_seen, beat_subdivisions, feat_sum, counter,
               current_div, div_frames, last_beat, beat_features,
               beat_interval, ret_beat, ret_beat_feat, is_beat, div_writes>>

batch_vars == <<features, features_ndim, beats_in, beats, pc, warnings,
                i_beat, first_next_beat_frame, batch_features, batch_frames,
                error, result>>

dbn_vars == <<beats_per_bar, pattern_change_prob, redistribution, gmms,
              dbn_pc, st, tm, pointers, observations, obs_ndim, log_dens,
              om_error, num_scored>>

infer_vars == <<bump_beat_number, return_pattern, on_counter, fwd, on_record,
                on_had_feature, on_inputs, on_states, off_path, off_numbers,
                off_error>>

loop_vars == <<loop_pc, loop_data, loop_error, loop_calls, loaded>>

vars == <<sync_vars, batch_vars, dbn_vars, infer_vars, loop_vars>>

-----------------------------------------------------------------------------
(* Bounds of the model *)

MaxSubdiv == 3          \* beat_subdivisions ranges over 1..MaxSubdiv
MaxCalls == 8           \* length of a stream, in frames
MaxFrames == 3          \* length of a batch feature sequence
MaxBeats == 3           \* length of a batch beat sequence
TicksPerFrame == 1      \* resolution of beat times
FeatVals == {0, 2}      \* values of one feature dimension
FeatDims == {1, 2}      \* feat_dim of a batch feature sequence
MaxPatterns == 2        \* length of beats_per_bar
MaxBeatsPerBar == 3     \* beats_per_bar entries range over 1..MaxBeatsPerBar
ProbSteps == 2          \* pattern_change_prob ranges over 0, 1/2, 1
MaxObsBeats == 1        \* n_beats of an observation array
MaxObsSubdiv == 2       \* subdivisions of the density models
MaxSteps == 4           \* process_online calls of a streaming session
MaxLineLen == 3         \* characters of an input line before its newline
MaxLines == 2           \* lines read by LoadBeatsProcessor

(* Program constants *)

fps == 100
offset == 2

NoBeat == 0             \* beat value for which beat.any() is False
NoLastBeat == -1        \* self.last_beat = None
NoDivFrames == <<>>     \* self.div_frames = None

-----------------------------------------------------------------------------
(* Exact arithmetic standing for the float arithmetic of the source *)

Abs(x) == IF x < 0 THEN -x ELSE x

RECURSIVE GCD(_, _)
GCD(a, b) == IF b = 0 THEN a ELSE GCD(b, a % b)

Rat(n, d) ==
    LET s == IF d < 0 THEN -1 ELSE 1
        g == GCD(Abs(n), Abs(d))
    IN  <<(s * n) \div g, (s * d) \div g>>

RInt(i) == <<i, 1>>
\* the operands are reduced by their common factors before multiplying, so
\* that intermediate products stay small
RAdd(a, b) ==
    LET g == GCD(a[2], b[2])
    IN  Rat(a[1] * (b[2] \div g) + b[1] * (a[2] \div g), (a[2] \div g) * b[2])
RSub(a, b) == RAdd(a, <<-b[1], b[2]>>)
RMul(a, b) ==
    LET g1 == GCD(Abs(a[1]), b[2])
        g2 == GCD(Abs(b[1]), a[2])
    IN  Rat((a[1] \div g1) * (b[1] \div g2), (a[2] \div g2) * (b[2] \div g1))
RDiv(a, b) == RMul(a, Rat(b[2], b[1]))
RLess(a, b) ==
    LET g == GCD(a[2], b[2])
    IN  a[1] * (b[2] \div g) < b[1] * (a[2] \div g)

\* floor of the rational n / d, d > 0
Floor(n, d) == n \div d

\* np.round of the rational n / d, d > 0: round half to even
Round(n, d) ==
    LET q == n \div d
        r == n % d
    IN  IF 2 * r > d THEN q + 1
        ELSE IF 2 * r < d THEN q
        ELSE IF q % 2 = 0 THEN q ELSE q + 1

RECURSIVE SumSeq(_)
SumSeq(s) == IF s = <<>> THEN 0 ELSE Head(s) + SumSeq(Tail(s))

-----------------------------------------------------------------------------
(* BeatSyncProcessor, streaming mode *)

\* np.linspace(0, beat_interval * fps, n + 1)[i] for an interval of
\* `interval` ticks, as the rational <<num, den>>
Linspace0(interval, n, i) ==
    <<i * interval * fps, n * fps * TicksPerFrame>>

\* DivFrames rounding the frame count of a subdivision, not its borders
DivFrames_RoundedCounts(interval, n) ==
    [i \in 1..n |-> Round(interval * fps, n * fps * TicksPerFrame)]

\* np.diff(np.round(np.linspace(0, beat_interval * fps, n + 1)))
DivFrames(interval, n) ==
    [i \in 1..n |->
        Round(Linspace0(interval, n, i)[1], Linspace0(interval, n, i)[2])
        - Round(Linspace0(interval, n, i - 1)[1],
                Linspace0(interval, n, i - 1)[2])]

Zeros(n) == [i \in 1..n |-> RInt(0)]

\* the beat times the call at frame index f can carry
BeatInputs(f) ==
    {NoBeat} \cup {f * TicksPerFrame + j : j \in 0..(TicksPerFrame - 1)}

SyncInit ==
    /\ frame = 0
    /\ beats_seen = 0
    /\ beat_subdivisions \in 1..MaxSubdiv
    /\ feat_sum = RInt(0)
    /\ counter = 0
    /\ current_div = 0
    /\ div_frames = NoDivFrames
    /\ last_beat = NoLastBeat
    /\ beat_features = Zeros(beat_subdivisions)
    /\ beat_interval = 0
    /\ ret_beat = NoBeat
    /\ ret_beat_feat = <<>>
    /\ is_beat = FALSE
    /\ div_writes = [i \in 1..beat_subdivisions |-> 0]

\* bookkeeping common to the three branches of process_online
Called(beat) ==
    /\ frame' = frame + 1
    /\ beats_seen' = beats_seen + (IF beat # NoBeat THEN 1 ELSE 0)
    /\ is_beat' = (beat # NoBeat)
    /\ UNCHANGED beat_subdivisions

\* init before first beat
BeforeFirstBeat(beat, feature) ==
    /\ last_beat = NoLastBeat
    /\ last_beat' = IF beat # NoBeat THEN beat ELSE last_beat
    /\ ret_beat' = NoBeat
    /\ ret_beat_feat' = <<>>
    /\ UNCHANGED <<feat_sum, counter, current_div, div_frames,
                   beat_features, beat_interval, div_writes>>

\* BeforeSecondBeat emitting the (still empty) vector at the second beat
BeforeSecondBeat_Emits(beat, feature) ==
    /\ last_beat # NoLastBeat
    /\ div_frames = NoDivFrames
    /\ IF beat # NoBeat
       THEN /\ beat_interval' = beat - last_beat
            /\ div_frames' = DivFrames(beat - last_beat, beat_subdivisions)
            /\ last_beat' = beat
            /\ ret_beat' = beat
            /\ ret_beat_feat' = <<beat_features>>
       ELSE /\ UNCHANGED <<beat_interval, div_frames, last_beat>>
            /\ ret_beat' = NoBeat
            /\ ret_beat_feat' = <<>>
    /\ UNCHANGED <<feat_sum, counter, current_div, beat_features,
                   div_writes>>

\* init before second beat
BeforeSecondBeat(beat, feature) ==
    /\ last_beat # NoLastBeat
    /\ div_frames = NoDivFrames
    /\ IF beat # NoBeat
       THEN /\ beat_interval' = beat - last_beat
            /\ div_frames' = DivFrames(beat - last_beat, beat_subdivisions)
            /\ last_beat' = beat
       ELSE UNCHANGED <<beat_interval, div_frames, last_beat>>
    /\ ret_beat' = NoBeat
    /\ ret_beat_feat' = <<>>
    /\ UNCHANGED <<feat_sum, counter, current_div, beat_features,
                   div_writes>>

\* NormalAction keeping the running sum at the end of a subdivision
NormalAction_KeepSum(beat, feature) ==
    /\ last_beat # NoLastBeat
    /\ div_frames # NoDivFrames
    /\ LET sum1 == RAdd(feat_sum, RInt(feature))
           cnt1 == counter + 1
           is_end_div == cnt1 >= div_frames[current_div + 1]
           feats1 == IF is_end_div
                     THEN [beat_features EXCEPT ![current_div + 1] =
                               RDiv(sum1, RInt(cnt1))]
                     ELSE beat_features
           div1 == IF is_end_div
                   THEN (current_div + 1) % beat_subdivisions
                   ELSE current_div
           writes1 == IF is_end_div
                      THEN [div_writes EXCEPT ![current_div + 1] = @ + 1]
                      ELSE div_writes
           sum2 == sum1
           cnt2 == IF is_end_div THEN 0 ELSE cnt1
       IN  IF beat # NoBeat
           THEN /\ ret_beat_feat' = <<feats1>>
                /\ beat_interval' = beat - last_beat
                /\ div_frames' =
                       DivFrames(beat - last_beat, beat_subdivisions)
                /\ feat_sum' =
                       IF cnt2 > offset
                       THEN RDiv(RMul(sum2, RInt(offset)), RInt(cnt2))
                       ELSE RMul(feats1[beat_subdivisions], RInt(offset))
                /\ counter' = offset
                /\ last_beat' = beat
                /\ current_div' = 0
                /\ beat_features' = Zeros(beat_subdivisions)
                /\ div_writes' = [i \in 1..beat_subdivisions |-> 0]
           ELSE /\ ret_beat_feat' = <<>>
                /\ feat_sum' = sum2
                /\ counter' = cnt2
                /\ current_div' = div1
                /\ beat_features' = feats1
                /\ div_writes' = writes1
                /\ UNCHANGED <<beat_interval, div_frames, last_beat>>
    /\ ret_beat' = beat

\* NormalAction emitting the vector after the reset
NormalAction_ResetFirst(beat, feature) ==
    /\ last_beat # NoLastBeat
    /\ div_frames # NoDivFrames
    /\ LET sum1 == RAdd(feat_sum, RInt(feature))
           cnt1 == counter + 1
           is_end_div == cnt1 >= div_frames[current_div + 1]
           feats1 == IF is_end_div
                     THEN [beat_features EXCEPT ![current_div + 1] =
                               RDiv(sum1, RInt(cnt1))]
                     ELSE beat_features
           div1 == IF is_end_div
                   THEN (current_div + 1) % beat_subdivisions
                   ELSE current_div
           writes1 == IF is_end_div
                      THEN [div_writes EXCEPT ![current_div + 1] = @ + 1]
                      ELSE div_writes
           sum2 == IF is_end_div THEN RInt(0) ELSE sum1
           cnt2 == IF is_end_div THEN 0 ELSE cnt1
       IN  IF beat # NoBeat
           THEN /\ ret_beat_feat' = <<Zeros(beat_subdivisions)>>
                /\ beat_interval' = beat - last_beat
                /\ div_frames' =
                       DivFrames(beat - last_beat, beat_subdivisions)
                /\ feat_sum' =
                       IF cnt2 > offset
                       THEN RDiv(RMul(sum2, RInt(offset)), RInt(cnt2))
                       ELSE RMul(feats1[beat_subdivisions], RInt(offset))
                /\ counter' = offset
                /\ last_beat' = beat
                /\ current_div' = 0
                /\ beat_features' = Zeros(beat_subdivisions)
                /\ div_writes' = [i \in 1..beat_subdivisions |-> 0]
           ELSE /\ ret_beat_feat' = <<>>
                /\ feat_sum' = sum2
                /\ counter' = cnt2
                /\ current_div' = div1
                /\ beat_features' = feats1
                /\ div_writes' = writes1
                /\ UNCHANGED <<beat_interval, div_frames, last_beat>>
    /\ ret_beat' = beat

\* normal action, everything is initialised
NormalAction(beat, feature) ==
    /\ last_beat # NoLastBeat
    /\ div_frames # NoDivFrames
    /\ LET sum1 == RAdd(feat_sum, RInt(feature))
           cnt1 == counter + 1
           is_end_div == cnt1 >= div_frames[current_div + 1]
           feats1 == IF is_end_div
                     THEN [beat_features EXCEPT ![current_div + 1] =
                               RDiv(sum1, RInt(cnt1))]
                     ELSE beat_features
           div1 == IF is_end_div
                   THEN (current_div + 1) % beat_subdivisions
                   ELSE current_div
           writes1 == IF is_end_div
                      THEN [div_writes EXCEPT ![current_div + 1] = @ + 1]
                      ELSE div_writes
           sum2 == IF is_end_div THEN RInt(0) ELSE sum1
           cnt2 == IF is_end_div THEN 0 ELSE cnt1
       IN  IF beat # NoBeat
           THEN /\ ret_beat_feat' = <<feats1>>
                /\ beat_interval' = beat - last_beat
                /\ div_frames' =
                       DivFrames(beat - last_beat, beat_subdivisions)
                /\ feat_sum' =
                       IF cnt2 > offset
                       THEN RDiv(RMul(sum2, RInt(offset)), RInt(cnt2))
                       ELSE RMul(feats1[beat_subdivisions], RInt(offset))
                /\ counter' = offset
                /\ last_beat' = beat
                /\ current_div' = 0
                /\ beat_features' = Zeros(beat_subdivisions)
                /\ div_writes' = [i \in 1..beat_subdivisions |-> 0]
           ELSE /\ ret_beat_feat' = <<>>
                /\ feat_sum' = sum2
                /\ counter' = cnt2
                /\ current_div' = div1
                /\ beat_features' = feats1
                /\ div_writes' = writes1
                /\ UNCHANGED <<beat_interval, div_frames, last_beat>>
    /\ ret_beat' = beat

\* a call of process_online taking the first, second, third return
FirstBeatCall ==
    /\ frame < MaxCalls
    /\ \E beat \in BeatInputs(frame), feature \in FeatVals :
          Called(beat) /\ BeforeFirstBeat(beat, feature)

SecondBeatCall ==
    /\ frame < MaxCalls
    /\ \E beat \in BeatInputs(frame), feature \in FeatVals :
          Called(beat) /\ BeforeSecondBeat(beat, feature)

RunningCall ==
    /\ frame < MaxCalls
    /\ \E beat \in BeatInputs(frame), feature \in FeatVals :
          Called(beat) /\ NormalAction(beat, feature)

process_online == FirstBeatCall \/ SecondBeatCall \/ RunningCall

-----------------------------------------------------------------------------
(* BeatSyncProcessor, batch mode *)

\* np.mean(x, axis=0) of a non-empty list of frames: one rational per dim
RECURSIVE SumDim(_, _)
SumDim(rows, d) ==
    IF rows = <<>> THEN RInt(0)
    ELSE RAdd(Head(rows)[d], SumDim(Tail(rows), d))

\* Mean without the division by the number of frames
Mean_Sum(rows, feat_dim) == [d \in 1..feat_dim |-> SumDim(rows, d)]

Mean(rows, feat_dim) ==
    [d \in 1..feat_dim |-> RDiv(SumDim(rows, d), RInt(Len(rows)))]

\* np.floor(np.linspace(1e-8, n_subdiv - 1e-8, n_frames))[j], j 0-based.
\* The point is j * n_subdiv / (n_frames - 1) + 1e-8 * (1 - 2j / (n_frames - 1));
\* a point that is not a whole number is at least 1 / (n_frames - 1) away
\* from one, so the 1e-8 term decides the floor only at whole numbers.
BeatPosOfFrame(n_subdiv, n_frames, j) ==
    IF n_frames = 1 THEN 0
    ELSE LET num == j * n_subdiv
             den == n_frames - 1
         IN  IF num % den # 0 THEN num \div den
             ELSE IF 2 * j > den THEN (num \div den) - 1
             ELSE num \div den

\* features[a:b] (Python slice, 0 <= a), 1-based result
Slice(seq, a, b) ==
    LET hi == IF b < Len(seq) THEN b ELSE Len(seq)
    IN  IF hi <= a THEN <<>> ELSE SubSeq(seq, a + 1, hi)

\* features_beat[beat_pos_of_frames == x]
RECURSIVE SelectPos(_, _, _, _, _)
SelectPos(features_beat, n_subdiv, n_frames, x, j) ==
    IF j >= n_frames THEN <<>>
    ELSE (IF BeatPosOfFrame(n_subdiv, n_frames, j) = x
          THEN <<features_beat[j + 1]>> ELSE <<>>)
         \o SelectPos(features_beat, n_subdiv, n_frames, x, j + 1)

\* good_rows: the 0-based rows of feats_sorted that hold frames, ascending
RECURSIVE GoodRows(_, _)
GoodRows(feats_sorted, r) ==
    IF r >= Len(feats_sorted) THEN <<>>
    ELSE (IF Len(feats_sorted[r + 1]) > 0 THEN <<r>> ELSE <<>>)
         \o GoodRows(feats_sorted, r + 1)

\* Interp holding the value of the supported point to the left
RECURSIVE Interp_StepLeft(_, _, _)
Interp_StepLeft(x, xp, fp) ==
    IF x <= xp[1] THEN fp[1]
    ELSE IF Len(xp) = 1 THEN fp[1]
    ELSE IF x < xp[2] THEN fp[1]
    ELSE Interp_StepLeft(x, Tail(xp), Tail(fp))

\* np.interp(x, xp, fp) for ascending, non-empty xp; fp rationals
RECURSIVE Interp(_, _, _)
Interp(x, xp, fp) ==
    IF x <= xp[1] THEN fp[1]
    ELSE IF Len(xp) = 1 THEN fp[1]
    ELSE IF x < xp[2]
         THEN RAdd(fp[1],
                   RDiv(RMul(RInt(x - xp[1]), RSub(fp[2], fp[1])),
                        RInt(xp[2] - xp[1])))
    ELSE Interp(x, Tail(xp), Tail(fp))

\* InterpolateMissing filling a beat without any frame with zeros
InterpolateMissing_ZeroFill(feats_sorted, feat_dim) ==
    [err |-> "",
     rows |-> [r1 \in 1..Len(feats_sorted) |->
         IF Len(feats_sorted[r1]) > 0 THEN feats_sorted[r1]
         ELSE <<[d \in 1..feat_dim |->
                   IF GoodRows(feats_sorted, 0) = <<>> THEN RInt(0)
                   ELSE Interp(r1 - 1, GoodRows(feats_sorted, 0),
                            [k \in 1..Len(GoodRows(feats_sorted, 0)) |->
                                Mean(feats_sorted[
                                    GoodRows(feats_sorted, 0)[k] + 1],
                                    feat_dim)[d]])]>>]]

\* interpolate_missing: rows without frames become one row of interpolated
\* means.  With no good row np.interp raises ValueError ("array of sample
\* points is empty"): err names the exception, "" when there is none.
InterpolateMissing(feats_sorted, feat_dim) ==
    LET good_rows == GoodRows(feats_sorted, 0)
        means(r) == Mean(feats_sorted[r + 1], feat_dim)
        means_p(r, d) ==
            Interp(r, good_rows,
                   [k \in 1..Len(good_rows) |-> means(good_rows[k])[d]])
    IN  IF Len(good_rows) < Len(feats_sorted) /\ good_rows = <<>>
        THEN [err |-> "ValueError", rows |-> <<>>]
        ELSE [err |-> "",
              rows |-> [r1 \in 1..Len(feats_sorted) |->
                  IF Len(feats_sorted[r1]) > 0 THEN feats_sorted[r1]
                  ELSE <<[d \in 1..feat_dim |-> means_p(r1 - 1, d)]>>]]

\* frames as rationals
AsRat(frame_values) == [d \in 1..Len(frame_values) |-> RInt(frame_values[d])]

\* int(np.max([0, np.floor((beats[0, 0] - 0.02) * fps)]))
FirstFrame(b0) ==
    LET f == Floor(100 * b0 * fps - 2 * fps * fps * TicksPerFrame,
                   100 * fps * TicksPerFrame)
    IN  IF f < 0 THEN 0 ELSE f

\* NextBeatFrame without the shift by half a subdivision
NextBeatFrame_EdgeAligned(b, b_next, n_subdiv) ==
    Floor(b_next * fps, fps * TicksPerFrame)

\* int(np.floor((beats[i_beat + 1, 0] - offset) * fps)) with
\* offset = 0.5 * duration_beat / beat_subdivisions
NextBeatFrame(b, b_next, n_subdiv) ==
    Floor((2 * n_subdiv * b_next - (b_next - b)) * fps,
          2 * n_subdiv * fps * TicksPerFrame)

\* feats_sorted of one loop iteration
FeatsSorted(feats, start, end, n_subdiv) ==
    LET features_beat == [k \in 1..Len(Slice(feats, start, end)) |->
                              AsRat(Slice(feats, start, end)[k])]
    IN  [x1 \in 1..n_subdiv |->
            SelectPos(features_beat, n_subdiv, end - start, x1 - 1, 0)]

RECURSIVE SortedSeq(_)
SortedSeq(S) ==
    IF S = {} THEN <<>>
    ELSE LET m == CHOOSE x \in S : \A y \in S : x <= y
         IN  <<m>> \o SortedSeq(S \ {m})

MaxTick == (MaxFrames + 1) * TicksPerFrame - 1

BeatSeqs ==
    {SortedSeq(S) : S \in {T \in SUBSET (0..MaxTick) : Cardinality(T) <= MaxBeats}}

\* the frames of a feature sequence: every value in dimension 1; a further
\* dimension holds the mirrored value, so that the dimensions differ
FeatureFrames(feat_dim) ==
    LET top == CHOOSE m \in FeatVals : \A v \in FeatVals : v <= m
    IN  {[d \in 1..feat_dim |-> IF d = 1 THEN a ELSE top - a] : a \in FeatVals}

FeatureSeqs(feat_dim) ==
    UNION {[1..k -> FeatureFrames(feat_dim)] : k \in 0..MaxFrames}

FeatDim == IF features = <<>> THEN 1 ELSE Len(features[1])

BatchIdle ==
    /\ features = <<>>
    /\ features_ndim = 2
    /\ beats_in = <<>>
    /\ beats = <<>>
    /\ pc = "idle"
    /\ warnings = <<>>
    /\ i_beat = 0
    /\ first_next_beat_frame = 0
    /\ batch_features = <<>>
    /\ batch_frames = <<>>
    /\ error = ""
    /\ result = <<>>

BatchInit ==
    /\ \E feat_dim \in FeatDims : features \in FeatureSeqs(feat_dim)
    /\ features_ndim \in {1, 2}
    /\ features_ndim = 1 => FeatDim = 1
    /\ beats_in \in BeatSeqs
    /\ beats = beats_in
    /\ pc = "start"
    /\ warnings = <<>>
    /\ i_beat = 0
    /\ first_next_beat_frame = 0
    /\ batch_features = <<>>
    /\ batch_frames = <<>>
    /\ error = ""
    /\ result = <<>>

\* OfflineStart without the early return for an empty beat sequence
OfflineStart_NoEmptyCheck ==
    /\ pc = "start"
    /\ pc' = "trim"
    /\ UNCHANGED <<features, features_ndim, beats_in, beats, warnings, i_beat,
                   first_next_beat_frame, batch_features, batch_frames, error,
                   result>>

\* lines 180-186: no beats, return immediately
OfflineStart ==
    /\ pc = "start"
    /\ IF Len(beats) = 0
       THEN /\ pc' = "returned"
            /\ result' = <<<<>>, <<>>>>
       ELSE /\ pc' = "trim"
            /\ UNCHANGED result
    /\ UNCHANGED <<features, features_ndim, beats_in, beats, warnings, i_beat,
                   first_next_beat_frame, batch_features, batch_frames, error>>

\* lines 188-208: one evaluation of the while condition; when it is false,
\* the code up to the aggregation loop
TrimStep ==
    /\ pc = "trim"
    /\ IF Len(beats) = 0
       THEN \* beats[-1, 0] of an empty array
            /\ pc' = "error"
            /\ error' = "IndexError"
            /\ UNCHANGED <<beats, warnings, first_next_beat_frame>>
       ELSE IF Len(features) * TicksPerFrame < beats[Len(beats)]
       THEN /\ beats' = SubSeq(beats, 1, Len(beats) - 1)
            /\ warnings' = Append(warnings,
                   "Beat sequence too long compared to features.")
            /\ UNCHANGED <<pc, error, first_next_beat_frame>>
       ELSE /\ warnings' = IF features_ndim > 1 THEN warnings
                           ELSE Append(warnings, "FIXME: feature loading")
            /\ first_next_beat_frame' = FirstFrame(beats[1])
            /\ pc' = "aggregate"
            /\ UNCHANGED <<beats, error>>
    /\ UNCHANGED <<features, features_ndim, beats_in, i_beat,
                   batch_features, batch_frames, result>>

\* lines 209-236: one iteration of the aggregation loop
AggregateBeat ==
    /\ pc = "aggregate"
    /\ i_beat < Len(beats) - 1
    /\ LET beat_start_frame == first_next_beat_frame
           next_frame == NextBeatFrame(beats[i_beat + 1], beats[i_beat + 2],
                                       beat_subdivisions)
           n_beat_frames == next_frame - beat_start_frame
           n_sliced == Len(Slice(features, beat_start_frame, next_frame))
       IN  /\ first_next_beat_frame' = next_frame
           /\ IF n_beat_frames < 0
              THEN \* np.linspace with a negative number of samples
                   /\ pc' = "error"
                   /\ error' = "ValueError"
                   /\ UNCHANGED <<i_beat, batch_features, batch_frames>>
              ELSE IF n_sliced # n_beat_frames
              THEN \* boolean index of the wrong length
                   /\ pc' = "error"
                   /\ error' = "IndexError"
                   /\ UNCHANGED <<i_beat, batch_features, batch_frames>>
              ELSE LET interpolated == InterpolateMissing(
                           FeatsSorted(features, beat_start_frame,
                                       next_frame, beat_subdivisions),
                           FeatDim)
                   IN  IF interpolated.err # ""
                       THEN /\ pc' = "error"
                            /\ error' = interpolated.err
                            /\ UNCHANGED <<i_beat, batch_features,
                                           batch_frames>>
                       ELSE /\ batch_features' = Append(batch_features,
                                   [x1 \in 1..beat_subdivisions |->
                                       Mean(interpolated.rows[x1], FeatDim)])
                            /\ batch_frames' = Append(batch_frames,
                                   <<beat_start_frame, next_frame>>)
                            /\ i_beat' = i_beat + 1
                            /\ UNCHANGED <<pc, error>>
    /\ UNCHANGED <<features, features_ndim, beats_in, beats, warnings, result>>

\* line 238
OfflineReturn ==
    /\ pc = "aggregate"
    /\ i_beat >= Len(beats) - 1
    /\ pc' = "returned"
    /\ result' = <<beats, batch_features>>
    /\ UNCHANGED <<features, features_ndim, beats_in, beats, warnings, i_beat,
                   first_next_beat_frame, batch_features, batch_frames, error>>

process_offline ==
    \/ OfflineStart
    \/ TrimStep
    \/ AggregateBeat
    \/ OfflineReturn

-----------------------------------------------------------------------------
(* DBNBarTrackingProcessor: state space and transition model *)

\* BarStateSpace(beats, min_interval=1, max_interval=1): one state per beat
\* of the bar, at bar positions 0 .. beats - 1
BarStateSpace(num_beats) ==
    [num_states |-> num_beats,
     state_positions |-> [i \in 1..num_beats |-> i - 1]]

\* StateSpaces appending the bars in reverse configuration order
StateSpaces_Reversed(bpb) ==
    [p \in 1..Len(bpb) |-> BarStateSpace(bpb[Len(bpb) + 1 - p])]

\* lines 431-439: one bar state space per entry of beats_per_bar, in order
StateSpaces(bpb) == [p \in 1..Len(bpb) |-> BarStateSpace(bpb[p])]

RECURSIVE Stack(_, _)
\* the states of state_spaces[p..], each tagged with its 0-based pattern
Stack(state_spaces, p) ==
    IF p > Len(state_spaces) THEN <<>>
    ELSE [i \in 1..state_spaces[p].num_states |->
              <<p - 1, state_spaces[p].state_positions[i]>>]
         \o Stack(state_spaces, p + 1)

\* MultiPatternStateSpace: the per-pattern ranges concatenated
MultiPatternStateSpace(state_spaces) ==
    LET stacked == Stack(state_spaces, 1)
    IN  [num_states |-> Len(stacked),
         state_patterns |-> [s \in 1..Len(stacked) |-> stacked[s][1]],
         state_positions |-> [s \in 1..Len(stacked) |-> stacked[s][2]]]

RNaN == <<0, 0>>        \* 0 / 0

RECURSIVE RSum(_)
RSum(seq) == IF seq = <<>> THEN RInt(0) ELSE RAdd(Head(seq), RSum(Tail(seq)))

Redistributions == {"same_phase", "all_states"}

\* MultiPatternTransitionModel, weight of s -> s2 before normalisation:
\* the within-pattern successor gets 1 - pattern_change_prob; the rest is
\* spread over the other patterns, either on the state of each other
\* pattern at the advanced position ("same_phase") or on all their states
\* ("all_states")
TransitionWeight(space, bpb, pcp, rule, s, s2) ==
    LET p == space.state_patterns[s]
        k == space.state_positions[s]
        q == space.state_patterns[s2]
        j == space.state_positions[s2]
    IN  IF q = p
        THEN IF j = (k + 1) % bpb[p + 1] THEN RSub(RInt(1), pcp) ELSE RInt(0)
        ELSE IF rule = "same_phase"
        THEN IF j = (k + 1) % bpb[q + 1]
             THEN RDiv(pcp, RInt(Len(bpb) - 1)) ELSE RInt(0)
        ELSE RDiv(pcp, RInt(space.num_states - bpb[p + 1]))

\* MultiPatternTransitionModel: each row normalised to sum 1
MultiPatternTransitionModel(space, bpb, pcp, rule) ==
    [s \in 1..space.num_states |->
        LET w == [s2 \in 1..space.num_states |->
                      TransitionWeight(space, bpb, pcp, rule, s, s2)]
        IN  [s2 \in 1..space.num_states |->
                IF RSum(w) = RInt(0) THEN RNaN ELSE RDiv(w[s2], RSum(w))]]

\* initial_distribution = None: uniform over the states
InitialDistribution(num_states) ==
    [s \in 1..num_states |-> Rat(1, num_states)]

-----------------------------------------------------------------------------
(* GMMDownBeatTrackingObservationModel *)

RECURSIVE DensitiesBefore(_, _)
\* densities_idx_offset when the loop of lines 706-717 reaches pattern p
\* (0-based): the number of GMM lists of the patterns before p
DensitiesBefore(g, p) ==
    IF p = 0 THEN 0 ELSE Len(g[p]) + DensitiesBefore(g, p - 1)

\* Pointers without the offset of the patterns stacked before
Pointers_NoOffset(space, g) ==
    [s \in 1..space.num_states |-> space.state_positions[s]]

\* lines 699-717: pointers[s] = position + densities_idx_offset for the
\* states of the patterns 0 .. len(gmms) - 1, 0 for any other state
Pointers(space, g) ==
    [s \in 1..space.num_states |->
        IF space.state_patterns[s] < Len(g)
        THEN space.state_positions[s]
             + DensitiesBefore(g, space.state_patterns[s])
        ELSE 0]

\* gmms[i][j][bd].score(x): log-density of a fitted model at the feature
\* vector x; the models are unit Gaussians told apart by their mean
Score(gmm, x) ==
    SumSeq([d \in 1..Len(x) |-> 0 - (x[d] - gmm.mean) * (x[d] - gmm.mean)])

RECURSIVE DensityColumns(_, _, _)
\* the (i, j) pairs in the order the loops of lines 745-752 visit them:
\* entry c + 1 is the pair whose densities fill column c
DensityColumns(g, i, j) ==
    IF i > Len(g) THEN <<>>
    ELSE IF j > Len(g[i]) THEN DensityColumns(g, i + 1, 1)
    ELSE <<<<i, j>>>> \o DensityColumns(g, i, j + 1)

\* lines 734-754
LogDensities(g, obs) ==
    LET cols == DensityColumns(g, 1, 1)
    IN  [b \in 1..Len(obs) |->
            [c1 \in 1..Len(cols) |->
                SumSeq([bd \in 1..Len(g[cols[c1][1]][cols[c1][2]]) |->
                    Score(g[cols[c1][1]][cols[c1][2]][bd], obs[b][bd])])]]

\* the columns whose loop over the beat divisions reads a subdivision the
\* observations do not have (observations[:, [bd], :] raises IndexError)
ShortColumns(g, n_obs_div) ==
    {c1 \in 1..Len(DensityColumns(g, 1, 1)) :
        Len(g[DensityColumns(g, 1, 1)[c1][1]][DensityColumns(g, 1, 1)[c1][2]])
            > n_obs_div}

\* number of score calls made while filling the columns 1 .. c1
RECURSIVE ScoresUpTo(_, _)
ScoresUpTo(g, c1) ==
    IF c1 = 0 THEN 0
    ELSE Len(g[DensityColumns(g, 1, 1)[c1][1]][DensityColumns(g, 1, 1)[c1][2]])
         + ScoresUpTo(g, c1 - 1)

\* log_densities, lines 731-754, on an array of ndim axes: the only check
\* is the one of ndim; err names the exception raised ("" if none), table
\* is the value returned, scored the number of score calls made
log_densities(ndim, g, obs) ==
    LET n_obs_div == Len(obs[1])
        short == ShortColumns(g, n_obs_div)
        first_short == CHOOSE c1 \in short : \A c2 \in short : c1 <= c2
    IN  IF ndim # 3
        THEN [err |-> "ValueError", table |-> <<>>, scored |-> 0]
        ELSE IF short # {}
        THEN [err |-> "IndexError", table |-> <<>>,
              scored |-> ScoresUpTo(g, first_short - 1) + n_obs_div]
        ELSE [err |-> "", table |-> LogDensities(g, obs),
              scored |-> ScoresUpTo(g, Len(DensityColumns(g, 1, 1)))]

\* ObservationModel: the log-density of state s (1-based) at beat b is the
\* column of the table its pointer names
StateLogDensity(table, ptrs, b, s) == table[b][ptrs[s] + 1]

\* the numbers of GMM lists of the pattern files for beats_per_bar bpb: one
\* list per beat of the bar, or one list more or one fewer in the first file
GmmBeatCounts(bpb) ==
    {[p \in 1..Len(bpb) |->
         IF p = 1 /\ bpb[1] + extra >= 1 THEN bpb[1] + extra ELSE bpb[p]] :
     extra \in {-1, 0, 1}}

\* the density models of a pattern file: num_gmm_beats lists of n_div
\* models for pattern p (0-based), every model with its own mean
PatternGmms(p, num_gmm_beats, n_div) ==
    [k1 \in 1..num_gmm_beats |->
        [bd1 \in 1..n_div |->
            [mean |-> (p * MaxBeatsPerBar + (k1 - 1)) * n_div + (bd1 - 1)]]]

BeatsPerBarLists ==
    UNION {[1..n -> 1..MaxBeatsPerBar] : n \in 1..MaxPatterns}

ObservationArrays(n_div) ==
    UNION {[1..n -> [1..n_div -> [1..1 -> FeatVals]]] : n \in 1..MaxObsBeats}

\* observations of one beat without the feature axis, shape
\* (1, n_subdivisions)
ObservationMatrices(n_div) == [1..1 -> [1..n_div -> FeatVals]]

\* the arrays passed to log_densities for the models g, as <<ndim, array>>:
\* rank 3 with the subdivisions of the models, rank 3 with one beat of any
\* number of subdivisions, rank 2 with one beat
ScoredInputs(g) ==
    {<<3, obs>> : obs \in ObservationArrays(Len(g[1][1]))}
        \cup UNION {{<<3, obs>> :
                         obs \in [1..1 -> [1..n_div -> [1..1 -> FeatVals]]]}
                        \cup {<<2, obs>> : obs \in ObservationMatrices(n_div)} :
                     n_div \in 1..MaxObsSubdiv}

DbnIdle ==
    /\ beats_per_bar = <<>>
    /\ pattern_change_prob = RInt(0)
    /\ redistribution = "same_phase"
    /\ gmms = <<>>
    /\ dbn_pc = "idle"
    /\ st = [num_states |-> 0, state_patterns |-> <<>>,
             state_positions |-> <<>>]
    /\ tm = <<>>
    /\ pointers = <<>>
    /\ observations = <<>>
    /\ obs_ndim = 3
    /\ log_dens = <<>>
    /\ om_error = ""
    /\ num_scored = 0

DbnInit ==
    /\ beats_per_bar \in BeatsPerBarLists
    /\ \E n \in 0..ProbSteps : pattern_change_prob = Rat(n, ProbSteps)
    /\ redistribution \in Redistributions
    /\ \E n_div \in 1..MaxObsSubdiv :
          \E lens \in GmmBeatCounts(beats_per_bar) :
              gmms = [p \in 1..Len(beats_per_bar) |->
                         PatternGmms(p - 1, lens[p], n_div)]
    /\ dbn_pc = "new"
    /\ st = [num_states |-> 0, state_patterns |-> <<>>,
             state_positions |-> <<>>]
    /\ tm = <<>>
    /\ pointers = <<>>
    /\ observations = <<>>
    /\ obs_ndim = 3
    /\ log_dens = <<>>
    /\ om_error = ""
    /\ num_scored = 0

\* DbnConstruct not passing pattern_change_prob on (the default 0 is used)
DbnConstruct_DefaultProb ==
    /\ dbn_pc = "new"
    /\ st' = MultiPatternStateSpace(StateSpaces(beats_per_bar))
    /\ tm' = MultiPatternTransitionModel(
                 MultiPatternStateSpace(StateSpaces(beats_per_bar)),
                 beats_per_bar, RInt(0), redistribution)
    /\ pointers' = Pointers(
                 MultiPatternStateSpace(StateSpaces(beats_per_bar)), gmms)
    /\ dbn_pc' = "built"
    /\ on_counter' = -1
    /\ fwd' = InitialDistribution(SumSeq(beats_per_bar))
    /\ UNCHANGED <<beats_per_bar, pattern_change_prob, redistribution, gmms,
                   observations, obs_ndim, log_dens, om_error, num_scored>>
    /\ UNCHANGED <<bump_beat_number, return_pattern, on_record,
                   on_had_feature, on_inputs, on_states, off_path,
                   off_numbers, off_error>>

\* DbnConstruct building the transition model with the pattern change
\* probability 1 / ProbSteps, whatever was asked for
DbnConstruct_FixedProb ==
    /\ dbn_pc = "new"
    /\ st' = MultiPatternStateSpace(StateSpaces(beats_per_bar))
    /\ tm' = MultiPatternTransitionModel(
                 MultiPatternStateSpace(StateSpaces(beats_per_bar)),
                 beats_per_bar, Rat(1, ProbSteps), redistribution)
    /\ pointers' = Pointers(
                 MultiPatternStateSpace(StateSpaces(beats_per_bar)), gmms)
    /\ dbn_pc' = "built"
    /\ on_counter' = -1
    /\ fwd' = InitialDistribution(SumSeq(beats_per_bar))
    /\ UNCHANGED <<beats_per_bar, pattern_change_prob, redistribution, gmms,
                   observations, obs_ndim, log_dens, om_error, num_scored>>
    /\ UNCHANGED <<bump_beat_number, return_pattern, on_record,
                   on_had_feature, on_inputs, on_states, off_path,
                   off_numbers, off_error>>

\* DBNBarTrackingProcessor.__init__, lines 428-446
DbnConstruct ==
    /\ dbn_pc = "new"
    /\ st' = MultiPatternStateSpace(StateSpaces(beats_per_bar))
    /\ tm' = MultiPatternTransitionModel(
                 MultiPatternStateSpace(StateSpaces(beats_per_bar)),
                 beats_per_bar, pattern_change_prob, redistribution)
    /\ pointers' = Pointers(
                 MultiPatternStateSpace(StateSpaces(beats_per_bar)), gmms)
    /\ dbn_pc' = "built"
    /\ on_counter' = -1
    /\ fwd' = InitialDistribution(SumSeq(beats_per_bar))
    /\ UNCHANGED <<beats_per_bar, pattern_change_prob, redistribution, gmms,
                   observations, obs_ndim, log_dens, om_error, num_scored>>
    /\ UNCHANGED <<bump_beat_number, return_pattern, on_record,
                   on_had_feature, on_inputs, on_states, off_path,
                   off_numbers, off_error>>

\* GMMDownBeatTrackingObservationModel.log_densities on one observation
\* array, of rank 3 or 2 and with any number of subdivisions
DbnLogDensities ==
    /\ dbn_pc = "built"
    /\ \E input \in ScoredInputs(gmms) :
          \E outcome \in {log_densities(input[1], gmms, input[2])} :
              /\ observations' = input[2]
              /\ obs_ndim' = input[1]
              /\ log_dens' = outcome.table
              /\ om_error' = outcome.err
              /\ num_scored' = outcome.scored
    /\ dbn_pc' = "scored"
    /\ UNCHANGED <<beats_per_bar, pattern_change_prob, redistribution, gmms,
                   st, tm, pointers>>
    /\ UNCHANGED infer_vars

-----------------------------------------------------------------------------
(* HiddenMarkovModel: forward filtering and Viterbi decoding *)

RECURSIVE Pow2(_)
Pow2(n) == IF n = 0 THEN 1 ELSE 2 * Pow2(n - 1)

\* om.densities: the densities of the states for the one beat of a scored
\* table.  A log-density counts in units of ln 2, so that the density of a
\* log-density ld <= 0 is the rational 1 / 2^(-ld).
Densities(table, ptrs, b) ==
    [s \in 1..Len(ptrs) |->
        <<1, Pow2(0 - StateLogDensity(table, ptrs, b, s))>>]

\* the one element of a singleton set; Once({e(x) : x \in {v}}) is e(v)
\* with v computed once
Once(S) == CHOOSE r \in S : TRUE

\* a vector of non-negative weights scaled to sum 1
Normalised(w) ==
    Once({[s \in 1..Len(w) |-> RDiv(w[s], total)] : total \in {RSum(w)}})

\* one transition + observation step of the forward algorithm, renormalised
ForwardStep(prev, trans, dens) ==
    Once({Normalised(w) : w \in {[s \in 1..Len(prev) |->
        RMul(RSum([j \in 1..Len(prev) |-> RMul(prev[j], trans[j][s])]),
             dens[s])]}})

\* np.argmax: the first index of a largest entry, 1-based
ArgMax(v) ==
    CHOOSE i \in 1..Len(v) :
        /\ \A j \in 1..Len(v) : ~RLess(v[i], v[j])
        /\ \A j \in 1..(i - 1) : RLess(v[j], v[i])

\* one step of the Viterbi recursion: for every state the best predecessor
\* (the first of the best ones) and the probability of the best path into
\* it; the probabilities are rescaled to sum 1, which changes no comparison
ViterbiStep(prev, trans, dens) ==
    Once({[back |-> [s \in 1..Len(prev) |-> best[s][1]],
           delta |-> Once({Normalised(w) : w \in {[s \in 1..Len(prev) |->
                         RMul(best[s][2], dens[s])]}})] :
          best \in {[s \in 1..Len(prev) |->
              Once({<<ArgMax(into), into[ArgMax(into)]>> :
                    into \in {[j \in 1..Len(prev) |->
                                  RMul(prev[j], trans[j][s])]}})]}})

\* the back pointers of the steps 1 .. t and the path probabilities after
\* step t, for the density vectors dens_seq
RECURSIVE ViterbiTrellis(_, _, _, _)
ViterbiTrellis(initial, trans, dens_seq, t) ==
    IF t = 0 THEN [back |-> <<>>, delta |-> initial]
    ELSE Once({Once({[back |-> Append(before.back, step.back),
                      delta |-> step.delta] :
                     step \in {ViterbiStep(before.delta, trans,
                                           dens_seq[t])}}) :
               before \in {ViterbiTrellis(initial, trans, dens_seq, t - 1)}})

\* the states of the steps 1 .. t of the best path that is in state s at
\* step t
RECURSIVE BackTrack(_, _, _)
BackTrack(back, t, s) ==
    IF t = 0 THEN <<>>
    ELSE Append(BackTrack(back, t - 1, back[t][s]), s)

\* hmm.viterbi: the most probable state sequence, one state per observation
Viterbi(initial, trans, dens_seq) ==
    Once({BackTrack(trellis.back, Len(dens_seq), ArgMax(trellis.delta)) :
          trellis \in {ViterbiTrellis(initial, trans, dens_seq,
                                      Len(dens_seq))}})

-----------------------------------------------------------------------------
(* DBNBarTrackingProcessor: streaming and batch decoding *)

NoFeature == <<>>       \* np.empty((0, 3)): no synchronised feature

\* activation.any()
AnyNonZero(activation) ==
    \E b \in 1..Len(activation) : \E bd \in 1..Len(activation[b]) :
        \E d \in 1..Len(activation[b][bd]) : activation[b][bd][d] # 0

\* pattern files whose models tell the states apart: the model of the
\* state with global index idx (0-based) at subdivision bd has the mean
\* 1 or 2, after the bit bd of idx
CodedGmms(bpb) ==
    [p \in 1..Len(bpb) |->
        [k1 \in 1..bpb[p] |->
            LET idx == SumSeq(SubSeq(bpb, 1, p - 1)) + (k1 - 1)
            IN  <<[mean |-> 1 + (idx % 2)],
                 [mean |-> 1 + ((idx \div 2) % 2)]>>]]

\* the synchronised features of one beat, shape (1, n_div, 1): at every
\* subdivision the mean of the model of one state, or 0 at all of them
BeatActivations(g) ==
    UNION {{<<[bd \in 1..Len(g[p][k1]) |-> <<g[p][k1][bd].mean>>]>> :
                k1 \in 1..Len(g[p])} : p \in 1..Len(g)}
        \cup {<<[bd \in 1..Len(g[1][1]) |-> <<0>>]>>}

\* the densities of the states for the beats of an array of feature vectors
DensitySeq(inputs) ==
    [t \in 1..Len(inputs) |->
        Once({Densities(table, pointers, 1) :
              table \in {log_densities(3, gmms, inputs[t]).table}})]

\* BeatNumber wrapping at the bar length of the first pattern
BeatNumber_FirstPatternBar(state, bump) ==
    LET beat_number == st.state_positions[state] + 1
    IN  IF bump THEN (beat_number % beats_per_bar[1]) + 1
        ELSE beat_number

\* beat numbers, lines 489-496: position + 1, bumped if asked for
BeatNumber(state, bump) ==
    LET beat_number == st.state_positions[state] + 1
        pattern == st.state_patterns[state]
    IN  IF bump THEN (beat_number % beats_per_bar[pattern + 1]) + 1
        ELSE beat_number

InferIdle ==
    /\ bump_beat_number = FALSE
    /\ return_pattern = FALSE
    /\ on_counter = -1
    /\ fwd = <<>>
    /\ on_record = <<>>
    /\ on_had_feature = FALSE
    /\ on_inputs = <<>>
    /\ on_states = <<>>
    /\ off_path = <<>>
    /\ off_numbers = <<>>
    /\ off_error = ""

\* the bar lengths tracked: one bar of four beats, and two patterns
TrackedBars == {<<4>>, <<1, 2>>}

\* arguments of DBNBarTrackingProcessor.__init__ that give a transition
\* matrix with rows summing to 1
InferInit ==
    /\ beats_per_bar \in TrackedBars
    /\ pattern_change_prob \in {RInt(0), Rat(1, ProbSteps)}
    /\ Len(beats_per_bar) = 1 => pattern_change_prob = RInt(0)
    /\ redistribution \in Redistributions
    /\ pattern_change_prob = RInt(0) => redistribution = "same_phase"
    /\ gmms = CodedGmms(beats_per_bar)
    /\ dbn_pc = "new"
    /\ st = [num_states |-> 0, state_patterns |-> <<>>,
             state_positions |-> <<>>]
    /\ tm = <<>>
    /\ pointers = <<>>
    /\ observations = <<>>
    /\ obs_ndim = 3
    /\ log_dens = <<>>
    /\ om_error = ""
    /\ num_scored = 0
    /\ bump_beat_number \in BOOLEAN
    /\ return_pattern \in BOOLEAN
    /\ on_counter = -1
    /\ fwd = <<>>
    /\ on_record = <<>>
    /\ on_had_feature = FALSE
    /\ on_inputs = <<>>
    /\ on_states = <<>>
    /\ off_path = <<>>
    /\ off_numbers = <<>>
    /\ off_error = ""

\* DbnOnline deciding on the forward vector of the call before
DbnOnline_StaleArgmax ==
    /\ dbn_pc = "built"
    /\ on_counter + 1 < MaxSteps
    /\ on_counter' = on_counter + 1
    /\ \E activation \in {NoFeature} \cup BeatActivations(gmms) :
          /\ on_had_feature' = (activation # NoFeature)
          /\ on_inputs' = IF activation # NoFeature
                           THEN Append(on_inputs, activation) ELSE on_inputs
          /\ IF AnyNonZero(activation)
             THEN /\ fwd' = ForwardStep(fwd, tm,
                          Densities(log_densities(3, gmms, activation).table,
                                    pointers, 1))
                  /\ on_states' = Append(on_states, ArgMax(fwd))
                  /\ on_record' =
                         <<on_counter + 1,
                           BeatNumber(ArgMax(fwd), bump_beat_number)>>
                         \o (IF return_pattern
                             THEN <<st.state_patterns[ArgMax(fwd)]>>
                             ELSE <<>>)
             ELSE /\ on_record' = <<>>
                  /\ UNCHANGED <<fwd, on_states>>
    /\ UNCHANGED <<bump_beat_number, return_pattern, off_path, off_numbers,
                   off_error>>
    /\ UNCHANGED dbn_vars

\* process_online, lines 477-505, called with the beat time of the call
\* and either no feature or the features of one beat
DbnOnline ==
    /\ dbn_pc = "built"
    /\ on_counter + 1 < MaxSteps
    /\ on_counter' = on_counter + 1
    /\ \E activation \in {NoFeature} \cup BeatActivations(gmms) :
          /\ on_had_feature' = (activation # NoFeature)
          /\ on_inputs' = IF activation # NoFeature
                           THEN Append(on_inputs, activation) ELSE on_inputs
          /\ IF AnyNonZero(activation)
             THEN \E next_fwd \in {ForwardStep(fwd, tm,
                          Densities(log_densities(3, gmms, activation).table,
                                    pointers, 1))} :
                  LET state == ArgMax(next_fwd)
                      beat == on_counter + 1
                  IN  /\ fwd' = next_fwd
                      /\ on_states' = Append(on_states, state)
                      /\ on_record' =
                             <<beat, BeatNumber(state, bump_beat_number)>>
                             \o (IF return_pattern
                                 THEN <<st.state_patterns[state]>> ELSE <<>>)
             ELSE /\ on_record' = <<>>
                  /\ UNCHANGED <<fwd, on_states>>
    /\ UNCHANGED <<bump_beat_number, return_pattern, off_path, off_numbers,
                   off_error>>
    /\ UNCHANGED dbn_vars

\* DbnOffline numbering the last beat one past the last decoded number
DbnOffline_NoWrap ==
    /\ dbn_pc = "built"
    /\ dbn_pc' = "decoded"
    /\ \E path \in {Viterbi(InitialDistribution(st.num_states), tm,
                              DensitySeq(on_inputs))} :
       LET beat_numbers == [t \in 1..Len(path) |-> BeatNumber(path[t], FALSE)]
       IN  /\ off_path' = path
           /\ IF path = <<>>
              THEN /\ off_error' = "IndexError"
                   /\ off_numbers' = <<>>
              ELSE /\ off_error' = ""
                   /\ off_numbers' = Append(beat_numbers,
                          beat_numbers[Len(path)] + 1)
    /\ UNCHANGED <<beats_per_bar, pattern_change_prob, redistribution, gmms,
                   st, tm, pointers, observations, obs_ndim, log_dens,
                   om_error, num_scored>>
    /\ UNCHANGED <<bump_beat_number, return_pattern, on_counter, fwd,
                   on_record, on_had_feature, on_inputs, on_states>>

\* process_offline, lines 507-519, on the features passed so far: one
\* beat more than feature vectors
DbnOffline ==
    /\ dbn_pc = "built"
    /\ dbn_pc' = "decoded"
    /\ \E path \in {Viterbi(InitialDistribution(st.num_states), tm,
                              DensitySeq(on_inputs))} :
       LET beat_numbers == [t \in 1..Len(path) |-> BeatNumber(path[t], FALSE)]
       IN  /\ off_path' = path
           /\ IF path = <<>>
              THEN \* beat_numbers[-1] of an empty array
                   /\ off_error' = "IndexError"
                   /\ off_numbers' = <<>>
              ELSE /\ off_error' = ""
                   /\ off_numbers' = Append(beat_numbers,
                          (beat_numbers[Len(path)]
                             % beats_per_bar[
                                 st.state_patterns[path[Len(path)]] + 1]) + 1)
    /\ UNCHANGED <<beats_per_bar, pattern_change_prob, redistribution, gmms,
                   st, tm, pointers, observations, obs_ndim, log_dens,
                   om_error, num_scored>>
    /\ UNCHANGED <<bump_beat_number, return_pattern, on_counter, fwd,
                   on_record, on_had_feature, on_inputs, on_states>>

-----------------------------------------------------------------------------
(* Input loop of bin/GMM_control.py and LoadBeatsProcessor.process_online *)

Digits == <<"0", "1">>
Chars == {"0", "1", "x", " "}       \* characters of a line
Whitespace == {" ", "\n"}

\* what infile.readline() returns: a line with its newline, or the empty
\* string at the end of the input
Lines ==
    {<<>>} \cup UNION {{l \o <<"\n">> : l \in [1..n -> Chars]} :
                          n \in 0..MaxLineLen}

\* str.split(' '): the fields between single blanks
RECURSIVE Split(_)
Split(s) ==
    IF \A i \in 1..Len(s) : s[i] # " " THEN <<s>>
    ELSE LET i == CHOOSE k \in 1..Len(s) :
                      s[k] = " " /\ \A j \in 1..(k - 1) : s[j] # " "
         IN  <<SubSeq(s, 1, i - 1)>> \o Split(SubSeq(s, i + 1, Len(s)))

\* str.strip(): float() ignores leading and trailing whitespace
RECURSIVE Strip(_)
Strip(s) ==
    IF s = <<>> THEN s
    ELSE IF s[1] \in Whitespace THEN Strip(Tail(s))
    ELSE IF s[Len(s)] \in Whitespace THEN Strip(SubSeq(s, 1, Len(s) - 1))
    ELSE s

\* float(s) succeeds: a non-empty run of digits between whitespace
IsNumber(s) ==
    /\ Strip(s) # <<>>
    /\ \A i \in 1..Len(Strip(s)) :
          \E d \in 1..Len(Digits) : Strip(s)[i] = Digits[d]

DigitValue(c) == (CHOOSE d \in 1..Len(Digits) : Digits[d] = c) - 1

\* the value of a run of decimal digits
RECURSIVE Decimal(_)
Decimal(s) ==
    IF s = <<>> THEN 0
    ELSE 10 * Decimal(SubSeq(s, 1, Len(s) - 1)) + DigitValue(s[Len(s)])

\* float(s) of a string that is a number
Float(s) == Decimal(Strip(s))

None == "None"

\* the exception of BeatSyncProcessor.process_online, line 96, for the beat
\* the loop passes: a Python float or None has no method any()
ProcessorCall(beat, feature) == "AttributeError"

LoopInit ==
    /\ loop_pc = "reading"
    /\ loop_data = <<>>
    /\ loop_error = ""
    /\ loop_calls = <<>>
    /\ loaded = <<>>

\* lines 53-59: the line does not split into two fields, the unpacking
\* raises ValueError and the loop is left with break
LoopBreak ==
    /\ loop_pc = "reading"
    /\ \E data \in Lines :
          /\ Len(Split(data)) # 2
          /\ loop_data' = data
    /\ loop_pc' = "ended"
    /\ UNCHANGED <<loop_error, loop_calls, loaded>>

\* lines 53-61: the line splits into two fields, one of which float() does
\* not accept; the ValueError is raised outside the try statement
LoopRaise ==
    /\ loop_pc = "reading"
    /\ \E data \in Lines :
          /\ Len(Split(data)) = 2
          /\ ~(IsNumber(Split(data)[1]) /\ IsNumber(Split(data)[2]))
          /\ loop_data' = data
    /\ loop_pc' = "crashed"
    /\ loop_error' = "ValueError"
    /\ UNCHANGED <<loop_calls, loaded>>

\* lines 53-66: two numeric fields; a beat of 0 becomes None and the
\* processor is called
LoopCall ==
    /\ loop_pc = "reading"
    /\ \E data \in Lines :
          /\ Len(Split(data)) = 2
          /\ IsNumber(Split(data)[1])
          /\ IsNumber(Split(data)[2])
          /\ loop_data' = data
          /\ LET beat == IF Float(Split(data)[1]) = 0 THEN None
                         ELSE Float(Split(data)[1])
                 feature == Float(Split(data)[2])
             IN  /\ loop_calls' = Append(loop_calls, <<beat, feature>>)
                 /\ loop_error' = ProcessorCall(beat, feature)
    /\ loop_pc' = "crashed"
    /\ UNCHANGED loaded

EmptyArray == <<>>      \* np.empty(0)

\* LoadBeatsProcessor.process_online, lines 306-310: the line as a float,
\* or an empty array if it is not a number
LoadBeatsOnline ==
    /\ Len(loaded) < MaxLines
    /\ \E data \in Lines :
          loaded' = Append(loaded, IF IsNumber(data) THEN Float(data)
                                   ELSE EmptyArray)
    /\ UNCHANGED <<loop_pc, loop_data, loop_error, loop_calls>>

-----------------------------------------------------------------------------
(* Specifications *)

\* the streaming synchroniser fed frame by frame
Init == SyncInit /\ BatchIdle /\ DbnIdle /\ InferIdle /\ LoopInit

Next ==
    \/ FirstBeatCall /\ UNCHANGED <<batch_vars, dbn_vars, infer_vars, loop_vars>>
    \/ SecondBeatCall /\ UNCHANGED <<batch_vars, dbn_vars, infer_vars, loop_vars>>
    \/ RunningCall /\ UNCHANGED <<batch_vars, dbn_vars, infer_vars, loop_vars>>

Spec == Init /\ [][Next]_vars

\* one call of process_offline on arbitrary beats and features
InitBatch == SyncInit /\ BatchInit /\ DbnIdle /\ InferIdle /\ LoopInit

NextBatch ==
    \/ OfflineStart /\ UNCHANGED <<sync_vars, dbn_vars, infer_vars, loop_vars>>
    \/ TrimStep /\ UNCHANGED <<sync_vars, dbn_vars, infer_vars, loop_vars>>
    \/ AggregateBeat /\ UNCHANGED <<sync_vars, dbn_vars, infer_vars, loop_vars>>
    \/ OfflineReturn /\ UNCHANGED <<sync_vars, dbn_vars, infer_vars, loop_vars>>

SpecBatch == InitBatch /\ [][NextBatch]_vars

\* construction of the bar tracker, then scoring of observation arrays
InitDbn ==
    SyncInit /\ beat_subdivisions = 1 /\ BatchIdle /\ DbnInit /\ InferIdle /\ LoopInit

NextDbn ==
    \/ DbnConstruct /\ UNCHANGED <<sync_vars, batch_vars, loop_vars>>
    \/ DbnLogDensities /\ UNCHANGED <<sync_vars, batch_vars, loop_vars>>

SpecDbn == InitDbn /\ [][NextDbn]_vars

\* a tracker fed beat by beat, then the same features decoded in one call
InitInfer == SyncInit /\ beat_subdivisions = 1 /\ BatchIdle /\ InferInit /\ LoopInit

NextInfer ==
    \/ DbnConstruct /\ UNCHANGED <<sync_vars, batch_vars, loop_vars>>
    \/ DbnOnline /\ UNCHANGED <<sync_vars, batch_vars, loop_vars>>
    \/ DbnOffline /\ UNCHANGED <<sync_vars, batch_vars, loop_vars>>

SpecInfer == InitInfer /\ [][NextInfer]_vars

\* the input loop reading one line after the other
InitLoop ==
    SyncInit /\ beat_subdivisions = 1 /\ BatchIdle /\ DbnIdle /\ InferIdle
        /\ LoopInit

NextLoop ==
    \/ LoopBreak /\ UNCHANGED <<sync_vars, batch_vars, dbn_vars, infer_vars>>
    \/ LoopRaise /\ UNCHANGED <<sync_vars, batch_vars, dbn_vars, infer_vars>>
    \/ LoopCall /\ UNCHANGED <<sync_vars, batch_vars, dbn_vars, infer_vars>>
    \/ LoadBeatsOnline
           /\ UNCHANGED <<sync_vars, batch_vars, dbn_vars, infer_vars>>

SpecLoop == InitLoop /\ [][NextLoop]_vars

-----------------------------------------------------------------------------
(* Properties of the streaming synchroniser (specification Spec) *)

\* C1: process_online returns a non-empty synchronised feature vector
\* exactly on the calls that carry a beat and come after the call carrying
\* the second beat; every other call returns an empty feature output.
C1_EmitFromThirdBeat ==
    /\ (ret_beat_feat # <<>>) <=> (is_beat /\ beats_seen >= 3)
    /\ ret_beat_feat # <<>> =>
          /\ Len(ret_beat_feat) = 1
          /\ Len(ret_beat_feat[1]) = beat_subdivisions
          /\ ret_beat = last_beat

C1_Witness ==
    /\ is_beat
    /\ beats_seen = 3
    /\ ret_beat_feat # <<>>

\* the property C2 states of the lengths d computed from an interval of
\* `interval` ticks
EvenPartition(d, interval, n) ==
    /\ Len(d) = n
    /\ \A i \in 1..n : d[i] \in Nat
    /\ SumSeq(d) = Round(interval * fps, fps * TicksPerFrame)
    /\ \A i, j \in 1..n : d[i] - d[j] <= 1

MaxInterval == 24       \* intervals (ticks) checked beyond those of a run

\* C2: whenever div_frames is computed from an inter-beat interval, the N
\* lengths are non-negative whole frame counts that sum to
\* round(interval * fps) and differ from one another by at most one frame.
C2_DivFramesEven ==
    /\ div_frames # NoDivFrames =>
          /\ beat_interval > 0
          /\ EvenPartition(div_frames, beat_interval, beat_subdivisions)
    /\ \A interval \in 1..MaxInterval :
          EvenPartition(DivFrames(interval, beat_subdivisions), interval,
                        beat_subdivisions)

C2_Witness ==
    /\ beats_seen >= 3
    /\ div_frames # NoDivFrames
    /\ \E i, j \in 1..beat_subdivisions : div_frames[i] # div_frames[j]
    /\ \E i \in 1..beat_subdivisions : div_frames[i] = 0

-----------------------------------------------------------------------------
(* Properties of batch aggregation (specification SpecBatch) *)

\* the frames of the k-th aggregated beat that fall into subdivision x
BinFramesOf(k, x) ==
    {f \in batch_frames[k][1]..(batch_frames[k][2] - 1) :
        BeatPosOfFrame(beat_subdivisions,
                       batch_frames[k][2] - batch_frames[k][1],
                       f - batch_frames[k][1]) = x}

RECURSIVE SumFrames(_, _)
SumFrames(F, d) ==
    IF F = {} THEN 0
    ELSE LET f == CHOOSE g \in F : TRUE
         IN  features[f + 1][d] + SumFrames(F \ {f}, d)

BinMeanOf(k, x, d) ==
    Rat(SumFrames(BinFramesOf(k, x), d), Cardinality(BinFramesOf(k, x)))

SupportedBins(k) ==
    {x \in 0..(beat_subdivisions - 1) : BinFramesOf(k, x) # {}}

ConstantFeatures(c) ==
    \A f \in 1..Len(features) : \A d \in 1..FeatDim : features[f][d] = c

\* C3: on a feature sequence whose every frame has the constant value c,
\* every subdivision value of every aggregated beat equals c.
C3_ConstantStream ==
    \A c \in FeatVals :
        ConstantFeatures(c) =>
            \A k \in 1..Len(batch_features) :
                \A x \in 1..beat_subdivisions : \A d \in 1..FeatDim :
                    batch_features[k][x][d] = RInt(c)

C3_Witness ==
    /\ pc = "returned"
    /\ Len(features) = MaxFrames
    /\ \E c \in FeatVals : c # 0 /\ ConstantFeatures(c)
    /\ Len(result[2]) >= 1
    /\ \E k \in 1..Len(batch_features) :
          \E x \in SupportedBins(k) : Cardinality(BinFramesOf(k, x)) >= 2

\* value at x of the straight line through (lo, BinMeanOf lo), (hi, BinMeanOf hi)
OnLine(k, x, d, lo, hi) ==
    RAdd(BinMeanOf(k, lo, d),
         RDiv(RMul(RInt(x - lo),
                   RSub(BinMeanOf(k, hi, d), BinMeanOf(k, lo, d))),
              RInt(hi - lo)))

\* C4: in every aggregated beat, a subdivision that received frames keeps the
\* mean of its own frames, and one that received none gets, per feature
\* dimension, the value on the straight line between the means of the
\* nearest supported subdivisions of the same beat (the mean of the only
\* supported subdivision when there is just one).
C4_Interpolation ==
    \A k \in 1..Len(batch_features) :
        \A x \in 0..(beat_subdivisions - 1) : \A d \in 1..FeatDim :
            LET below == {y \in SupportedBins(k) : y < x}
                above == {y \in SupportedBins(k) : y > x}
                lo == CHOOSE y \in below : \A z \in below : z <= y
                hi == CHOOSE y \in above : \A z \in above : y <= z
                v == batch_features[k][x + 1][d]
            IN  /\ SupportedBins(k) # {}
                /\ x \in SupportedBins(k) => v = BinMeanOf(k, x, d)
                /\ x \notin SupportedBins(k) =>
                      /\ below # {}
                      /\ above # {} => v = OnLine(k, x, d, lo, hi)
                      /\ above = {} => /\ SupportedBins(k) = {lo}
                                       /\ v = BinMeanOf(k, lo, d)

C4_Witness ==
    /\ pc = "returned"
    /\ \E k \in 1..Len(batch_features) :
         \E x \in 1..(beat_subdivisions - 2) : \E d \in 1..FeatDim :
            /\ x \notin SupportedBins(k)
            /\ (x - 1) \in SupportedBins(k)
            /\ (x + 1) \in SupportedBins(k)
            /\ BinMeanOf(k, x - 1, d) = RInt(0)
            /\ BinMeanOf(k, x + 1, d) = RInt(2)
            /\ batch_features[k][x + 1][d] = RInt(1)

\* first and one-past-last frame of the window of beat interval i (0-based)
\* of the retained beats, as lines 207-223 compute them
WindowStart(i) ==
    IF i = 0 THEN FirstFrame(beats[1])
    ELSE NextBeatFrame(beats[i], beats[i + 1], beat_subdivisions)

WindowEnd(i) == NextBeatFrame(beats[i + 1], beats[i + 2], beat_subdivisions)

EmptyBeat(i) == WindowEnd(i) <= WindowStart(i)

\* C5: a beat interval whose subdivisions are all empty makes the call fail
\* with an error; no row is ever produced for such a beat and no result is
\* returned.
C5_EmptyBeatFails ==
    /\ \A k \in 1..Len(batch_features) : ~EmptyBeat(k - 1)
    /\ pc = "returned" /\ beats_in # <<>> =>
          \A i \in 0..(Len(beats) - 2) : ~EmptyBeat(i)
    /\ pc = "error" /\ error = "ValueError" =>
          /\ EmptyBeat(i_beat)
          /\ result = <<>>
    /\ pc = "aggregate" /\ i_beat >= 1 => ~EmptyBeat(i_beat - 1)

C5_Witness ==
    /\ pc = "error"
    /\ error = "ValueError"
    /\ EmptyBeat(i_beat)
    /\ Len(features) > 0
    /\ Len(beats) = Len(beats_in)

\* the beats of the input that do not lie past the end of the features
RECURSIVE KeptBeats(_)
KeptBeats(b) ==
    IF b = <<>> THEN <<>>
    ELSE IF Len(features) * TicksPerFrame < b[Len(b)]
         THEN KeptBeats(SubSeq(b, 1, Len(b) - 1))
         ELSE b

TooLong(w) == w = "Beat sequence too long compared to features."

\* C6: a beat sequence extending past the features is handled without a
\* fatal error, also when every beat lies past the end: exactly the trailing
\* beats past len(features) / fps are dropped, one warning each, the other
\* beats are kept, and the trimming loop terminates.
C6_TrimNonFatal ==
    /\ ~(pc = "error" /\ error = "IndexError")
    /\ pc \in {"aggregate", "returned"} /\ beats_in # <<>> =>
          /\ beats = KeptBeats(beats_in)
          /\ Cardinality({j \in 1..Len(warnings) : TooLong(warnings[j])})
                = Len(beats_in) - Len(beats)

\* C7: the call returns the retained beats with one vector of N subdivisions
\* per pair of consecutive retained beats; with zero beats it returns an
\* empty beat sequence and an empty feature sequence without error.
C7_OneVectorPerInterval ==
    /\ beats_in = <<>> => /\ pc # "error"
                          /\ pc = "returned" => result = <<<<>>, <<>>>>
    /\ pc = "returned" /\ beats_in # <<>> =>
          /\ result[1] = KeptBeats(beats_in)
          /\ Len(result[1]) >= 1
          /\ Len(result[2]) = Len(result[1]) - 1
          /\ \A k \in 1..Len(result[2]) :
                /\ Len(result[2][k]) = beat_subdivisions
                /\ \A x \in 1..beat_subdivisions :
                      Len(result[2][k][x]) = FeatDim

C7_Witness ==
    /\ pc = "returned"
    /\ Len(beats_in) = 3
    /\ Len(result[1]) = 3
    /\ Len(result[2]) = 2

-----------------------------------------------------------------------------
(* Properties of the bar tracker's construction (specification SpecDbn) *)

PatternOf(s) == st.state_patterns[s]
PositionOf(s) == st.state_positions[s]
States == 1..st.num_states

\* C8: the state space has sum(beats_per_bar) states; every state index maps
\* to one (pattern, position) pair with 0 <= position < beats_per_bar[pattern];
\* no two states share a pair; in index order the patterns come in
\* configuration order with positions 0 .. B_p - 1 consecutive, so that
\* beats_per_bar is recovered from the enumeration.
C8_StateEnumeration ==
    dbn_pc # "new" =>
        /\ st.num_states = SumSeq(beats_per_bar)
        /\ Len(st.state_patterns) = st.num_states
        /\ Len(st.state_positions) = st.num_states
        /\ \A s \in States :
              /\ PatternOf(s) \in 0..(Len(beats_per_bar) - 1)
              /\ PositionOf(s) \in 0..(beats_per_bar[PatternOf(s) + 1] - 1)
        /\ \A s, t \in States :
              (PatternOf(s) = PatternOf(t) /\ PositionOf(s) = PositionOf(t))
                  => s = t
        /\ PatternOf(1) = 0 /\ PositionOf(1) = 0
        /\ \A s \in States \ {st.num_states} :
              \/ /\ PatternOf(s + 1) = PatternOf(s)
                 /\ PositionOf(s + 1) = PositionOf(s) + 1
              \/ /\ PatternOf(s + 1) = PatternOf(s) + 1
                 /\ PositionOf(s + 1) = 0
                 /\ PositionOf(s) = beats_per_bar[PatternOf(s) + 1] - 1
        /\ [p \in 1..Len(beats_per_bar) |->
               Cardinality({s \in States : PatternOf(s) = p - 1})]
             = beats_per_bar

C8_Witness ==
    /\ dbn_pc = "built"
    /\ Len(beats_per_bar) = MaxPatterns
    /\ beats_per_bar[1] = MaxBeatsPerBar
    /\ beats_per_bar[2] = 2
    /\ st.num_states = MaxBeatsPerBar + 2

\* the sum, over the subdivisions, of the log-density of the models of
\* pattern p, position k (0-based) at the features of beat b
SumOfSubdivisionScores(p, k, b) ==
    SumSeq([bd \in 1..Len(observations[b]) |->
               Score(gmms[p + 1][k + 1][bd], observations[b][bd])])

HasGmms(s) == PositionOf(s) < Len(gmms[PatternOf(s) + 1])

\* log_densities has returned for an array of shape (n_beats, N, feat_dim)
\* with the N of the density models
ScoredMatching ==
    /\ dbn_pc = "scored"
    /\ obs_ndim = 3
    /\ om_error = ""
    /\ Len(observations[1]) = Len(gmms[1][1])

\* C9: for every state (p, k) and every beat, the log-likelihood of the
\* state is the sum over all N subdivisions of the log-density of the model
\* (p, k, bd) at the beat's subdivision-bd feature vector: the state's
\* pointer is the index of the column log_densities fills for the models of
\* (p, k), and distinct states have distinct pointers.
C9_PointersAddressColumns ==
    dbn_pc # "new" =>
        /\ \A s \in States :
              HasGmms(s) =>
                  /\ pointers[s] + 1 \in 1..Len(DensityColumns(gmms, 1, 1))
                  /\ DensityColumns(gmms, 1, 1)[pointers[s] + 1]
                        = <<PatternOf(s) + 1, PositionOf(s) + 1>>
                  /\ ScoredMatching =>
                        \A b \in 1..Len(observations) :
                            StateLogDensity(log_dens, pointers, b, s)
                              = SumOfSubdivisionScores(PatternOf(s),
                                                       PositionOf(s), b)
        /\ (\A s \in States : HasGmms(s)) =>
              \A s, t \in States : pointers[s] = pointers[t] => s = t

C9_Witness ==
    /\ ScoredMatching
    /\ Len(beats_per_bar) = MaxPatterns
    /\ \A p \in 1..Len(beats_per_bar) : Len(gmms[p]) = beats_per_bar[p]
    /\ beats_per_bar[1] >= 2
    /\ beats_per_bar[2] >= 2
    /\ Len(observations) = MaxObsBeats
    /\ Len(observations[1]) = MaxObsSubdiv
    /\ \E s, t \in States :
          StateLogDensity(log_dens, pointers, 1, s)
            # StateLogDensity(log_dens, pointers, 1, t)

\* the observations do not have the shape (n_beats, N, feat_dim) of the
\* loaded density models: wrong rank, or a subdivision count other than N
ShapeMismatch ==
    \/ obs_ndim # 3
    \/ Len(observations[1]) # Len(gmms[1][1])

\* C11: log_densities rejects every observation input that is not rank-3 or
\* whose subdivision count does not match the loaded density models with a
\* shape error (ValueError), raised before any density is computed, and
\* returns no result for it.
C11_ShapeRejected ==
    (dbn_pc = "scored" /\ ShapeMismatch) =>
        /\ om_error = "ValueError"
        /\ num_scored = 0
        /\ log_dens = <<>>

\* the 1-based index of the within-pattern successor (p, (k + 1) mod B_p)
Successor(s) ==
    CHOOSE t \in States :
        /\ PatternOf(t) = PatternOf(s)
        /\ PositionOf(t) = (PositionOf(s) + 1) % beats_per_bar[PatternOf(s) + 1]

RowIsDistribution(s) ==
    /\ \A t \in States : tm[s][t] # RNaN /\ tm[s][t][1] >= 0
    /\ RSum(tm[s]) = RInt(1)

SuccessorSplit(s) ==
    /\ tm[s][Successor(s)] = RSub(RInt(1), pattern_change_prob)
    /\ \A t \in States :
          (PatternOf(t) = PatternOf(s) /\ t # Successor(s))
              => tm[s][t] = RInt(0)

\* C10 as stated: for every beats_per_bar list and every pattern_change_prob
\* in [0, 1], every row of the transition matrix is a probability
\* distribution in which the within-pattern successor gets
\* 1 - pattern_change_prob and the rest lies only on states of other patterns.
C10_RowStochasticAnyConfig ==
    dbn_pc # "new" =>
        \A s \in States : RowIsDistribution(s) /\ SuccessorSplit(s)

\* C10, amended: the same for every beats_per_bar list with two or more
\* patterns, and for a single pattern when pattern_change_prob is 0.
C10_RowStochastic ==
    (dbn_pc # "new"
       /\ (Len(beats_per_bar) >= 2 \/ pattern_change_prob = RInt(0))) =>
        \A s \in States : RowIsDistribution(s) /\ SuccessorSplit(s)

C10_Witness ==
    /\ dbn_pc = "built"
    /\ Len(beats_per_bar) = 2
    /\ beats_per_bar[1] # beats_per_bar[2]
    /\ RLess(RInt(0), pattern_change_prob)
    /\ RLess(pattern_change_prob, RInt(1))
    /\ \E s, t \in States : PatternOf(s) # PatternOf(t) /\ tm[s][t] # RInt(0)

-----------------------------------------------------------------------------
(* Properties of decoding (specification SpecInfer) *)

BarOf(s) == beats_per_bar[PatternOf(s) + 1]

\* the features that match the models of state s at every subdivision
Ideal(s) ==
    <<[bd \in 1..Len(gmms[1][1]) |->
          <<gmms[PatternOf(s) + 1][PositionOf(s) + 1][bd].mean>>]>>

\* the state of the pattern of s that lies n beats after s
Ahead(s, n) ==
    CHOOSE t \in States :
        /\ PatternOf(t) = PatternOf(s)
        /\ PositionOf(t) = (PositionOf(s) + n) % BarOf(s)

\* the features match, beat after beat, the states from `first` onwards in
\* increasing bar-position order
InOrderFrom(inputs, first) ==
    \A t \in 1..Len(inputs) : inputs[t] = Ideal(Ahead(first, t - 1))

MaxCheckedPath == 2     \* longest path compared with every other path

\* probability of the state sequence q[1] (before the first beat), q[2], ...
\* given the densities of the beats: initial probability, transitions and
\* densities
RECURSIVE PathProbability(_, _, _)
PathProbability(q, n, dens_seq) ==
    IF n = 1 THEN InitialDistribution(st.num_states)[q[1]]
    ELSE RMul(PathProbability(q, n - 1, dens_seq),
              RMul(tm[q[n - 1]][q[n]], dens_seq[n - 1][q[n]]))

\* no state sequence is more probable than the best one ending in off_path
PathIsMostProbable ==
    LET n == Len(off_path) + 1
        ending == {q \in [1..n -> States] :
                      \A t \in 2..n : q[t] = off_path[t - 1]}
    IN  \E dens_seq \in {DensitySeq(on_inputs)} :
            \E best \in ending :
                \E p_best \in {PathProbability(best, n, dens_seq)} :
                    \A q \in [1..n -> States] :
                        ~RLess(p_best, PathProbability(q, n, dens_seq))

\* what C12 states of the outcome of a batch call
DecodedAsClaimed ==
    /\ off_error = ""
    /\ Len(off_path) = Len(on_inputs)
    /\ Len(off_numbers) = Len(on_inputs) + 1
    /\ \A t \in 1..Len(off_path) :
          /\ off_path[t] \in States
          /\ off_numbers[t] = PositionOf(off_path[t]) + 1
          /\ off_numbers[t] \in 1..BarOf(off_path[t])
    /\ Len(off_path) >= 1 =>
          LET n == Len(off_numbers)
          IN  /\ off_numbers[n]
                    = (off_numbers[n - 1] % BarOf(off_path[n - 1])) + 1
              /\ off_numbers[n] \in 1..BarOf(off_path[n - 1])
    /\ (Len(off_path) \in 1..MaxCheckedPath
           /\ \A t \in 1..Len(on_inputs) : AnyNonZero(on_inputs[t]))
          => PathIsMostProbable
    /\ (beats_per_bar = <<4>> /\ Len(on_inputs) = 4
           /\ InOrderFrom(on_inputs, 1))
          => off_numbers = <<1, 2, 3, 4, 1>>

C13_OneStepPerFeature ==
    on_counter >= 0 =>
        /\ on_had_feature <=> on_record # <<>>
        /\ Len(on_states) = Len(on_inputs)

\* C14: every emitted record reports a state with the largest forward
\* probability as a beat number in 1..B_p of the state's pattern p:
\* position + 1 without bump_beat_number, ((position + 1) mod B_p) + 1 with
\* it; the record is (beat_time, beat_number), with the pattern id as third
\* field exactly when return_pattern is on.
C14_RecordOfArgmax ==
    on_record # <<>> =>
        LET state == on_states[Len(on_states)]
        IN  /\ \A s \in States : ~RLess(fwd[state], fwd[s])
            /\ on_record[1] = on_counter
            /\ on_record[2] \in 1..BarOf(state)
            /\ on_record[2] =
                  IF bump_beat_number
                  THEN ((PositionOf(state) + 1) % BarOf(state)) + 1
                  ELSE PositionOf(state) + 1
            /\ Len(on_record) = IF return_pattern THEN 3 ELSE 2
            /\ return_pattern => on_record[3] = PatternOf(state)

C14_Witness ==
    /\ on_record # <<>>
    /\ bump_beat_number
    /\ return_pattern
    /\ Len(on_states) >= 2
    /\ on_record[3] = 1
    /\ PositionOf(on_states[Len(on_states)]) = 1
    /\ on_record[2] = 1

\* C15: for one bar of four beats and features that match one state per
\* beat in increasing bar-position order, the beat numbers of the states
\* decided beat by beat by forward filtering equal the beat numbers of the
\* Viterbi path over the same features.
C15_StreamingMatchesViterbi ==
    (dbn_pc = "decoded" /\ beats_per_bar = <<4>>
       /\ \E first \in States : InOrderFrom(on_inputs, first)) =>
        /\ Len(on_states) = Len(off_path)
        /\ \A t \in 1..Len(on_states) :
              PositionOf(on_states[t]) + 1 = off_numbers[t]

C15_Witness ==
    /\ dbn_pc = "decoded"
    /\ beats_per_bar = <<4>>
    /\ Len(on_inputs) = 4
    /\ InOrderFrom(on_inputs, 3)
    /\ off_numbers = <<3, 4, 1, 2, 3>>
    /\ [t \in 1..4 |-> PositionOf(on_states[t]) + 1] = <<3, 4, 1, 2>>

SamePattern(path) ==
    \A t, u \in 1..Len(path) : PatternOf(path[t]) = PatternOf(path[u])

NoPatternChange ==
    /\ pattern_change_prob = RInt(0)
    /\ Len(beats_per_bar) >= 2

\* C16 as stated: with pattern_change_prob = 0 and two or more patterns the
\* pattern decoded is the same for every beat of a sequence, whatever the
\* features are, for the Viterbi path and for the states decided beat by
\* beat by forward filtering.
C16_PatternConstantBoth ==
    NoPatternChange =>
        /\ SamePattern(on_states)
        /\ dbn_pc = "decoded" => SamePattern(off_path)

\* C16, amended: with pattern_change_prob = 0 and two or more patterns the
\* states of the Viterbi path all have the same pattern, whatever the
\* features are (the states decided beat by beat by forward filtering can
\* change pattern).
C16_PatternConstantViterbi ==
    (NoPatternChange /\ dbn_pc = "decoded") => SamePattern(off_path)

C16_Witness ==
    /\ NoPatternChange
    /\ dbn_pc = "decoded"
    /\ Len(off_path) = 4
    /\ SamePattern(off_path)
    /\ ~SamePattern(on_states)

-----------------------------------------------------------------------------
(* Properties of the input loop (specification SpecLoop) *)

\* a line that is not "number blank number": wrong number of fields, a
\* field that is not a number, or nothing at all
Malformed(data) ==
    \/ Len(Split(data)) # 2
    \/ ~IsNumber(Split(data)[1])
    \/ ~IsNumber(Split(data)[2])

\* C17: every malformed line (wrong number of fields, non-numeric beat or
\* feature field, empty line at the end of the input) ends the loop without
\* an error and without a processor call for the line.
C17_MalformedEndsLoop ==
    (loop_pc # "reading" /\ Malformed(loop_data)) =>
        /\ loop_pc = "ended"
        /\ loop_error = ""
        /\ loop_calls = <<>>

-----------------------------------------------------------------------------
(* Properties of the running state of the streaming synchroniser
   (specification Spec) *)

\* the synchroniser has seen two beats
Running == last_beat # NoLastBeat /\ div_frames # NoDivFrames

\* sum and count of the open subdivision with the frame of the call
SumWith(feature) == RAdd(feat_sum, RInt(feature))
CountWith == counter + 1

\* the count has reached the length allotted to the open subdivision
EndOfDiv == CountWith >= div_frames[current_div + 1]

\* the stored values after the frame of the call
StoredWith(feature) ==
    IF EndOfDiv
    THEN [beat_features EXCEPT
              ![current_div + 1] = RDiv(SumWith(feature), RInt(CountWith))]
    ELSE beat_features

\* C18: in the running state a call without a beat adds the feature to
\* the running sum and 1 to the count; if the count has reached the
\* allotted length of the current subdivision, the subdivision's stored
\* value becomes sum / count (count >= 1), the pointer moves to
\* (current + 1) mod N and sum and count become 0; otherwise pointer and
\* stored values stay.  The pointer stays in 0..N-1.
C18_AccumulateStep ==
    [][(Running /\ frame' = frame + 1 /\ ~is_beat') =>
          \E feature \in FeatVals :
              /\ beat_features' = StoredWith(feature)
              /\ IF EndOfDiv
                 THEN /\ CountWith >= 1
                      /\ current_div' = (current_div + 1) % beat_subdivisions
                      /\ feat_sum' = RInt(0)
                      /\ counter' = 0
                 ELSE /\ current_div' = current_div
                      /\ feat_sum' = SumWith(feature)
                      /\ counter' = CountWith
              /\ current_div \in 0..(beat_subdivisions - 1)
              /\ current_div' \in 0..(beat_subdivisions - 1)]_vars

\* a call without a beat has stored the mean of the last subdivision and
\* moved the pointer from N - 1 back to 0
C18_Witness ==
    /\ Running
    /\ ~is_beat
    /\ beat_subdivisions >= 2
    /\ current_div = 0
    /\ counter = 0
    /\ beat_features[beat_subdivisions] # RInt(0)
    /\ beat_features[1] # beat_features[beat_subdivisions]

\* C19: a call with a beat in the running state emits the vector
\* accumulated before the reset; afterwards the pointer is 0, the stored
\* values are zero, last_beat is the beat, the subdivision lengths are those
\* of the interval since the previous beat, the count is offset, and the
\* running sum is sum * offset / count if more than offset frames were
\* pending, else offset times the stored value of the last subdivision.
C19_BeatReset ==
    [][(Running /\ frame' = frame + 1 /\ is_beat') =>
          \E feature \in FeatVals :
              LET pending_sum == IF EndOfDiv THEN RInt(0) ELSE SumWith(feature)
                  pending == IF EndOfDiv THEN 0 ELSE CountWith
              IN  /\ ret_beat_feat' = <<StoredWith(feature)>>
                  /\ ret_beat' # NoBeat
                  /\ current_div' = 0
                  /\ beat_features' = Zeros(beat_subdivisions)
                  /\ last_beat' = ret_beat'
                  /\ div_frames' =
                         DivFrames(ret_beat' - last_beat, beat_subdivisions)
                  /\ counter' = offset
                  /\ feat_sum' =
                         IF pending > offset
                         THEN RDiv(RMul(pending_sum, RInt(offset)),
                                   RInt(pending))
                         ELSE RMul(StoredWith(feature)[beat_subdivisions],
                                   RInt(offset))]_vars

\* a beat has emitted a vector of two different means and left offset
\* times the last of them as the running sum
C19_Witness ==
    /\ Running
    /\ is_beat
    /\ beat_subdivisions >= 2
    /\ ret_beat_feat # <<>>
    /\ ret_beat_feat[1][1] # RInt(0)
    /\ ret_beat_feat[1][1] # ret_beat_feat[1][beat_subdivisions]
    /\ beat_features = Zeros(beat_subdivisions)
    /\ current_div = 0
    /\ counter = offset
    /\ last_beat = ret_beat
    /\ feat_sum # RInt(0)
    /\ feat_sum = RMul(ret_beat_feat[1][beat_subdivisions], RInt(offset))

-----------------------------------------------------------------------------
(* Properties of the windows of batch aggregation (specification SpecBatch) *)

\* the frame that holds the time lying half a subdivision of an interval
\* of dur ticks before the time b (ticks): the largest e with
\* e <= (b - dur / (2 N)) / TicksPerFrame
HalfSubdivBefore(b, dur) ==
    CHOOSE e \in (0 - MaxTick - 1)..(MaxTick + 1) :
        /\ e * 2 * beat_subdivisions * TicksPerFrame
              <= 2 * beat_subdivisions * b - dur
        /\ (e + 1) * 2 * beat_subdivisions * TicksPerFrame
              > 2 * beat_subdivisions * b - dur

\* the frame that holds the time 20 ms (two frames) before b, not below 0
TwentyMsBefore(b) ==
    CHOOSE e \in 0..(MaxTick + 1) :
        /\ (e + 2) * TicksPerFrame <= b \/ e = 0
        /\ (e + 3) * TicksPerFrame > b

\* the windows recorded end half a subdivision before the next beat, do
\* not overlap, and assign their frames to subdivisions 0..N-1 in
\* non-decreasing order
WindowsEndCentred ==
    \A k \in 1..Len(batch_frames) :
        LET start == batch_frames[k][1]
            end == batch_frames[k][2]
        IN  /\ end = HalfSubdivBefore(beats[k + 1], beats[k + 1] - beats[k])
            /\ start <= end
            /\ k < Len(batch_frames) => batch_frames[k + 1][1] = end
            /\ \A j \in 0..(end - start - 1) :
                  /\ BeatPosOfFrame(beat_subdivisions, end - start, j)
                        \in 0..(beat_subdivisions - 1)
                  /\ j > 0 =>
                        BeatPosOfFrame(beat_subdivisions, end - start, j - 1)
                           <= BeatPosOfFrame(beat_subdivisions, end - start, j)

-----------------------------------------------------------------------------
(* Completeness of the emitted vectors (specification Spec) *)

\* the number of means stored per subdivision since the last reset, with
\* the frame of the call
WritesWith ==
    IF EndOfDiv THEN [div_writes EXCEPT ![current_div + 1] = @ + 1]
    ELSE div_writes

\* C21: every entry of every emitted vector is the mean of a subdivision of
\* the interval that just ended: when a beat arrives in the running state,
\* every subdivision has been stored exactly once since the last reset (none
\* is left at zero, none was overwritten after the pointer wrapped).
C21_EveryEntryOneMean ==
    [][(Running /\ frame' = frame + 1 /\ is_beat') =>
          \A i \in 1..beat_subdivisions : WritesWith[i] = 1]_vars

====
